---- MODULE Spec2Model ----
(***************************************************************************)
(* Media relay bot (src/prime.py): the reply-triggered relocation workflow *)
(* on_message, the recurring scan daily_media_scan with its persisted      *)
(* cursor, and the link classifier they share.                             *)
(*                                                                         *)
(* Strings are sequences of one-character strings, so that lower(),        *)
(* endswith(), the substring test, strip() and the URL regular expression  *)
(* are computed character by character as the code computes them.          *)
(***************************************************************************)
EXTENDS Integers, Sequences, FiniteSets

(***************************************************************************)
(* String literals of the program and of the message catalogue.            *)
(***************************************************************************)
ext_png ==
    <<".", "p", "n", "g">>

ext_jpg ==
    <<".", "j", "p", "g">>

ext_jpeg ==
    <<".", "j", "p", "e", "g">>

ext_gif ==
    <<".", "g", "i", "f">>

ext_mp4 ==
    <<".", "m", "p", "4">>

ext_mov ==
    <<".", "m", "o", "v">>

ext_avi ==
    <<".", "a", "v", "i">>

ext_webm ==
    <<".", "w", "e", "b", "m">>

ext_webp ==
    <<".", "w", "e", "b", "p">>

cdn_attachments ==
    <<"c", "d", "n", ".", "d", "i", "s", "c", "o", "r", "d", "a", "p", "p", ".", "c", "o", "m",
    "/", "a", "t", "t", "a", "c", "h", "m", "e", "n", "t", "s">>

TextMove ==
    <<"m", "o", "v", "e", " ", "i", "t">>

TextScenario ==
    <<"l", "o", "o", "k", " ", "h", "t", "t", "p", "s", ":", "/", "/", "c", "d", "n", ".", "d",
    "i", "s", "c", "o", "r", "d", "a", "p", "p", ".", "c", "o", "m", "/", "a", "t", "t", "a",
    "c", "h", "m", "e", "n", "t", "s", "/", "x", ".", "p", "n", "g", " ", "c", "h", "e", "c",
    "k", " ", "t", "h", "i", "s", " ", "h", "t", "t", "p", "s", ":", "/", "/", "e", "x", "a",
    "m", "p", "l", "e", ".", "c", "o", "m", "/", "p", "a", "g", "e">>

TextBlank ==
    <<" ", "\n">>

TextGallery ==
    <<"h", "t", "t", "p", ":", "/", "/", "i", "/", "0", ".", "p", "n", "g", " ", "h", "t", "t",
    "p", ":", "/", "/", "i", "/", "1", ".", "J", "P", "G", "\n", "h", "t", "t", "p", "s", ":",
    "/", "/", "i", "/", "2", ".", "j", "p", "e", "g", " ", "h", "t", "t", "p", ":", "/", "/",
    "i", "/", "3", ".", "g", "i", "f", " ", "h", "t", "t", "p", ":", "/", "/", "i", "/", "4",
    ".", "W", "e", "b", "P", " ", "h", "t", "t", "p", ":", "/", "/", "i", "/", "5", ".", "p",
    "n", "g", " ", "h", "t", "t", "p", ":", "/", "/", "i", "/", "6", ".", "p", "n", "g", " ",
    "h", "t", "t", "p", ":", "/", "/", "i", "/", "7", ".", "p", "n", "g", " ", "h", "t", "t",
    "p", ":", "/", "/", "i", "/", "8", ".", "p", "n", "g", " ", "h", "t", "t", "p", ":", "/",
    "/", "i", "/", "9", ".", "p", "n", "g", " ", "h", "t", "t", "p", ":", "/", "/", "i", "/",
    "a", ".", "p", "n", "g", " ", "h", "t", "t", "p", "s", ":", "/", "/", "v", "/", "1", ".",
    "M", "O", "V", " ", "h", "t", "t", "p", ":", "/", "/", "w", "/", "1", ".", "t", "x", "t">>

UrlCdnPng ==
    <<"h", "t", "t", "p", "s", ":", "/", "/", "c", "d", "n", ".", "d", "i", "s", "c", "o", "r",
    "d", "a", "p", "p", ".", "c", "o", "m", "/", "a", "t", "t", "a", "c", "h", "m", "e", "n",
    "t", "s", "/", "x", ".", "p", "n", "g">>

UrlExamplePage ==
    <<"h", "t", "t", "p", "s", ":", "/", "/", "e", "x", "a", "m", "p", "l", "e", ".", "c", "o",
    "m", "/", "p", "a", "g", "e">>

UrlAttachedNote ==
    <<"h", "t", "t", "p", "s", ":", "/", "/", "c", "d", "n", ".", "d", "i", "s", "c", "o", "r",
    "d", "a", "p", "p", ".", "c", "o", "m", "/", "a", "t", "t", "a", "c", "h", "m", "e", "n",
    "t", "s", "/", "1", "/", "n", ".", "t", "x", "t">>


\* str.lower(): the upper-case ASCII letters and their lower-case forms.
UpperLower ==
    {
    <<"A", "a">>, <<"B", "b">>, <<"C", "c">>, <<"D", "d">>, <<"E", "e">>, <<"F", "f">>,
      <<"G", "g">>, <<"H", "h">>, <<"I", "i">>, <<"J", "j">>, <<"K", "k">>, <<"L", "l">>,
      <<"M", "m">>, <<"N", "n">>, <<"O", "o">>, <<"P", "p">>, <<"Q", "q">>, <<"R", "r">>,
      <<"S", "s">>, <<"T", "t">>, <<"U", "u">>, <<"V", "v">>, <<"W", "w">>, <<"X", "x">>,
      <<"Y", "y">>, <<"Z", "z">>
    }

\* Characters str.strip() removes and \S refuses.
Whitespace ==
    {" ", "\t", "\n"}

LowerChar(c) ==
    IF \E p \in UpperLower : p[1] = c
    THEN (CHOOSE p \in UpperLower : p[1] = c)[2]
    ELSE c

Lower(s) ==
    [i \in 1..Len(s) |-> LowerChar(s[i])]

EndsWith(s, suffix) ==
    /\ Len(s) >= Len(suffix)
    /\ SubSeq(s, Len(s) - Len(suffix) + 1, Len(s)) = suffix

StartsWithAt(s, i, prefix) ==
    /\ i + Len(prefix) - 1 <= Len(s)
    /\ SubSeq(s, i, i + Len(prefix) - 1) = prefix

Contains(s, sub) ==
    \E i \in 1..Len(s) : StartsWithAt(s, i, sub)

\* prime.py:44
media_extensions ==
    <<ext_png, ext_jpg, ext_jpeg, ext_gif, ext_mp4, ext_mov, ext_avi, ext_webm, ext_webp>>

\* prime.py:56
image_extensions ==
    <<ext_png, ext_jpg, ext_jpeg, ext_gif, ext_webp>>

\* Mutant of is_media_link: the URL is tested as written, not in lower case.
is_media_link_as_written(url) ==
    \/ \E k \in 1..Len(media_extensions) : EndsWith(url, media_extensions[k])
    \/ Contains(url, cdn_attachments)

\* prime.py:39-49
is_media_link(url) ==
    LET url_lower == Lower(url)
    IN  \/ \E k \in 1..Len(media_extensions) : EndsWith(url_lower, media_extensions[k])
        \/ Contains(url_lower, cdn_attachments)

\* prime.py:51-57
is_image_link(url) ==
    \E k \in 1..Len(image_extensions) : EndsWith(Lower(url), image_extensions[k])

\* chunk_size of both callers (prime.py:157, prime.py:261).
EmbedsPerMessage ==
    10

Min(a, b) ==
    IF a <= b THEN a ELSE b

\* prime.py:59-65: for i in range(0, len(lst), chunk_size): yield lst[i : i + chunk_size]
RECURSIVE ChunksFrom(_, _, _)
ChunksFrom(lst, i, chunk_size) ==
    IF i >= Len(lst)
    THEN <<>>
    ELSE <<SubSeq(lst, i + 1, Min(i + chunk_size, Len(lst)))>>
         \o ChunksFrom(lst, i + chunk_size, chunk_size)

\* Mutant of chunk_list: only the full chunks are yielded.
chunk_list_full_only(lst, chunk_size) ==
    ChunksFrom(SubSeq(lst, 1, (Len(lst) \div chunk_size) * chunk_size), 0, chunk_size)

chunk_list(lst, chunk_size) ==
    ChunksFrom(lst, 0, chunk_size)

\* The scheme of the regular expression https?://\S+ (prime.py:109, prime.py:223).
scheme_http ==
    <<"h", "t", "t", "p">>

scheme_sep ==
    <<":", "/", "/">>

\* Index of the last character of the run of non-whitespace that starts at i.
RECURSIVE RunEnd(_, _)
RunEnd(s, i) ==
    IF i + 1 <= Len(s) /\ s[i + 1] \notin Whitespace
    THEN RunEnd(s, i + 1)
    ELSE i

\* Where a match of https?://\S+ that begins at i ends, or 0 when none begins there.
\* The optional s is tried first; without it the separator must follow http at once.
MatchEnd(s, i) ==
    LET body(j) == IF j <= Len(s) /\ s[j] \notin Whitespace THEN RunEnd(s, j) ELSE 0
        with_s  == IF /\ i + 4 <= Len(s)
                      /\ s[i + 4] = "s"
                      /\ StartsWithAt(s, i + 5, scheme_sep)
                   THEN body(i + 8) ELSE 0
        plain   == IF StartsWithAt(s, i + 4, scheme_sep) THEN body(i + 7) ELSE 0
    IN  IF ~StartsWithAt(s, i, scheme_http) THEN 0
        ELSE IF with_s > 0 THEN with_s
        ELSE plain

\* re.findall(r'(https?://\S+)', text): leftmost matches, scanning on after each.
RECURSIVE FindAllFrom(_, _)
FindAllFrom(s, i) ==
    IF i > Len(s) THEN <<>>
    ELSE LET e == MatchEnd(s, i)
         IN  IF e > 0
             THEN <<SubSeq(s, i, e)>> \o FindAllFrom(s, e + 1)
             ELSE FindAllFrom(s, i + 1)

findall(text) ==
    FindAllFrom(text, 1)

\* str.strip(): the text without its leading and trailing whitespace.
RECURSIVE strip(_)
strip(s) ==
    IF s = <<>> THEN s
    ELSE IF s[1] \in Whitespace THEN strip(Tail(s))
    ELSE IF s[Len(s)] \in Whitespace THEN strip(SubSeq(s, 1, Len(s) - 1))
    ELSE s

(***************************************************************************)
(* Bounds of the model.                                                    *)
(***************************************************************************)
\* Inbound messages when the relocation workflow is watched on its own.
MaxPosts ==
    3

\* Messages posted when scan passes run.
MaxScanned ==
    2

\* Scan passes that can be in flight at once, were the loop to allow it.
MaxSlots ==
    2

(***************************************************************************)
(* The platform: what users post and who holds the role.                   *)
(***************************************************************************)
\* What a message can carry: its attachments (URL and size in bytes) and its text.
\* The attachment of the third is a file of 9 MiB.
Contents ==
    << [attachments |-> <<>>, content |-> TextMove],
       [attachments |-> <<>>, content |-> TextScenario],
       [attachments |-> << [url |-> UrlAttachedNote, size |-> 9437184] >>,
        content |-> TextBlank],
       [attachments |-> <<>>, content |-> TextGallery] >>

\* A message posted in the source channel that replies to nothing.
PlainPosts ==
    { [bot |-> FALSE, channel |-> "source", reference |-> 0, mentions_bot |-> FALSE,
       content |-> c] : c \in DOMAIN Contents }
    \cup
    { [bot |-> TRUE, channel |-> "source", reference |-> 0, mentions_bot |-> FALSE,
       content |-> 2] }

\* A reply to message r: by a bot, in another channel, without the mention, or the
\* privileged reply that mentions the bot in the source channel.
Replies(r) ==
    { [bot |-> TRUE, channel |-> "source", reference |-> r, mentions_bot |-> TRUE,
       content |-> 1],
      [bot |-> FALSE, channel |-> "other", reference |-> r, mentions_bot |-> TRUE,
       content |-> 1],
      [bot |-> FALSE, channel |-> "source", reference |-> r, mentions_bot |-> FALSE,
       content |-> 1],
      [bot |-> FALSE, channel |-> "source", reference |-> r, mentions_bot |-> TRUE,
       content |-> 1] }

\* The holders of the role, in the order role.members lists them.
Holders ==
    << [name |-> "ann", bot |-> FALSE],
       [name |-> "relay", bot |-> TRUE],
       [name |-> "bob", bot |-> FALSE] >>

\* guild.get_role(ROLE_ID): no such role, or the role with its members of the moment
\* (the holders from some member on).
RoleOutcomes ==
    { [found |-> FALSE, members |-> <<>>] }
    \cup { [found |-> TRUE, members |-> SubSeq(Holders, k, Len(Holders))] :
             k \in 1..(Len(Holders) + 1) }

(***************************************************************************)
(* Links of a message.  A link in the state is a reference <<id, k>>: the  *)
(* k-th entry of the combined link list of message id; its URL is          *)
(* UrlOf(msgs, ref).  <<id, 0>> stands for the stripped text of message    *)
(* id.                                                                     *)
(***************************************************************************)
\* prime.py:107 and 222: [att.url for att in attachments]
attachment_urls ==
    [c \in DOMAIN Contents |->
        [k \in DOMAIN Contents[c].attachments |-> Contents[c].attachments[k].url]]

\* prime.py:107-112 and 222-224: attachments + content_links
combined_urls ==
    [c \in DOMAIN Contents |-> attachment_urls[c] \o findall(Contents[c].content)]

media_flags ==
    [c \in DOMAIN Contents |->
        [k \in DOMAIN combined_urls[c] |-> is_media_link(combined_urls[c][k])]]

image_flags ==
    [c \in DOMAIN Contents |->
        [k \in DOMAIN combined_urls[c] |-> is_image_link(combined_urls[c][k])]]

stripped_text ==
    [c \in DOMAIN Contents |-> strip(Contents[c].content)]

all_links(id, c) ==
    [k \in DOMAIN combined_urls[c] |-> <<id, k>>]

\* prime.py:120-125 and 227-232
normal_links(id, c) ==
    SelectSeq(all_links(id, c), LAMBDA r : media_flags[c][r[2]])

weird_links(id, c) ==
    SelectSeq(all_links(id, c), LAMBDA r : ~media_flags[c][r[2]])

image_links(id, c) ==
    SelectSeq(normal_links(id, c), LAMBDA r : image_flags[c][r[2]])

video_links(id, c) ==
    SelectSeq(normal_links(id, c), LAMBDA r : ~image_flags[c][r[2]])

(***************************************************************************)
(* The order of the sends, shared by the replay and the fan-out: the text  *)
(* (replay only), the image batches, the video links, the weird links.     *)
(***************************************************************************)
\* Mutant of Phases: the video links are sent before the image batches.
PhasesVideoFirst ==
    <<"text", "video", "image", "weird", "end">>

Phases ==
    <<"text", "image", "video", "weird", "end">>

\* How many sends a phase holds.
Sends(k, lists) ==
    CASE Phases[k] = "text"  -> IF lists.text = <<>> THEN 0 ELSE 1
      [] Phases[k] = "image" -> Len(chunk_list(lists.image, EmbedsPerMessage))
      [] Phases[k] = "video" -> Len(lists.video)
      [] Phases[k] = "weird" -> Len(lists.weird)
      [] OTHER -> 0

\* The first send at or after phase k: a point [k, i], or the end.
RECURSIVE PointFrom(_, _)
PointFrom(k, lists) ==
    IF Phases[k] = "end" THEN [k |-> k, i |-> 0]
    ELSE IF Sends(k, lists) > 0 THEN [k |-> k, i |-> 1]
    ELSE PointFrom(k + 1, lists)

\* The send that follows point pt in the loops.
NextPoint(pt, lists) ==
    IF pt.i < Sends(pt.k, lists)
    THEN [k |-> pt.k, i |-> pt.i + 1]
    ELSE PointFrom(pt.k + 1, lists)

\* What the send at point pt carries.
Payload(pt, lists) ==
    CASE Phases[pt.k] = "text"  -> [kind |-> "content", body |-> lists.text]
      [] Phases[pt.k] = "image" ->
            [kind |-> "embeds", body |-> chunk_list(lists.image, EmbedsPerMessage)[pt.i]]
      [] Phases[pt.k] = "video" -> [kind |-> "link", body |-> <<lists.video[pt.i]>>]
      [] Phases[pt.k] = "weird" -> [kind |-> "link", body |-> <<lists.weird[pt.i]>>]

AtEnd(pt) ==
    Phases[pt.k] = "end"

(***************************************************************************)
(* Inputs of the pure functions: link lists over a catalogue of URLs.       *)
(***************************************************************************)
\* URLs of every kind the classification distinguishes, each with what it is by
\* construction: stem \o suffix, ext the suffix's extension in lower case ("" when it
\* has none of the listed ones), cdn whether the stem lies on the attachment CDN.
UrlStems ==
    << [text |-> <<"h","t","t","p","s",":","/","/","e",".","x","/","a">>,
        cdn |-> FALSE],
       [text |-> <<"h","t","t","p","s",":","/","/","c","d","n",".","d","i","s","c","o","r",
                  "d","a","p","p",".","c","o","m","/","a","t","t","a","c","h","m","e","n","t",
                  "s","/","1","/","a">>,
        cdn |-> TRUE],
       [text |-> <<"H","T","T","P","S",":","/","/","C","D","N",".","D","i","s","c","o","r",
                  "d","A","p","p",".","C","O","M","/","A","t","t","a","c","h","m","e","n","t",
                  "s","/","2","/","a">>,
        cdn |-> TRUE] >>

UrlSuffixes ==
    << [text |-> <<".", "p", "n", "g">>, ext |-> "png"],
       [text |-> <<".", "j", "p", "g">>, ext |-> "jpg"],
       [text |-> <<".", "j", "p", "e", "g">>, ext |-> "jpeg"],
       [text |-> <<".", "g", "i", "f">>, ext |-> "gif"],
       [text |-> <<".", "w", "e", "b", "p">>, ext |-> "webp"],
       [text |-> <<".", "m", "p", "4">>, ext |-> "mp4"],
       [text |-> <<".", "m", "o", "v">>, ext |-> "mov"],
       [text |-> <<".", "a", "v", "i">>, ext |-> "avi"],
       [text |-> <<".", "w", "e", "b", "m">>, ext |-> "webm"],
       [text |-> <<".", "P", "N", "G">>, ext |-> "png"],
       [text |-> <<".", "J", "p", "G">>, ext |-> "jpg"],
       [text |-> <<".", "M", "O", "V">>, ext |-> "mov"],
       [text |-> <<".", "W", "e", "b", "M">>, ext |-> "webm"],
       [text |-> <<".", "t", "x", "t">>, ext |-> ""],
       [text |-> <<>>, ext |-> ""],
       [text |-> <<".", "p", "n", "g", "?", "e", "x", "=", "1">>, ext |-> ""],
       [text |-> <<"p", "n", "g">>, ext |-> ""],
       [text |-> <<".", "m", "p", "3">>, ext |-> ""] >>

Catalogue ==
    [i \in 1..(Len(UrlStems) * Len(UrlSuffixes)) |->
        LET stem   == UrlStems[((i - 1) \div Len(UrlSuffixes)) + 1]
            suffix == UrlSuffixes[((i - 1) % Len(UrlSuffixes)) + 1]
        IN  [url |-> stem.text \o suffix.text, ext |-> suffix.ext, cdn |-> stem.cdn]]

\* prime.py:120-121: is_media_link(link) of every URL of the catalogue
catalogue_media ==
    [i \in DOMAIN Catalogue |-> is_media_link(Catalogue[i].url)]

\* prime.py:124-125: is_image_link(link) of every URL of the catalogue
catalogue_image ==
    [i \in DOMAIN Catalogue |-> is_image_link(Catalogue[i].url)]

\* prime.py:119-125: the four list comprehensions over a combined link list, here a
\* list of indices into the catalogue.
Classified(links) ==
    LET normal == SelectSeq(links, LAMBDA i : catalogue_media[i])
    IN  [image |-> SelectSeq(normal, LAMBDA i : catalogue_image[i]),
         video |-> SelectSeq(normal, LAMBDA i : ~catalogue_image[i]),
         weird |-> SelectSeq(links, LAMBDA i : ~catalogue_media[i])]

\* Longest list drawn in full, and longest list drawn by stride.
MaxShort ==
    2

MaxLinks ==
    21

\* n URLs of the catalogue from start on, step apart (step 0: one URL n times).
Stride(start, step, n) ==
    [k \in 1..n |-> ((start - 1 + (k - 1) * step) % Len(Catalogue)) + 1]

LinkLists ==
    UNION { [1..n -> DOMAIN Catalogue] : n \in 0..MaxShort }
    \cup { Stride(start, step, n) : start \in DOMAIN Catalogue,
                                   step \in {0, 1, Len(UrlSuffixes)},
                                   n \in (MaxShort + 1)..MaxLinks }

(***************************************************************************)
(* State.                                                                  *)
(***************************************************************************)
VARIABLES
    call,     \* the pure functions on their own: input link list and results
    msgs,     \* every message posted so far; a message's identifier is its index
    source,   \* identifiers of the messages now in the source channel
    wf,       \* wf[id]: the on_message handler of inbound message id
    data,     \* bot_data.json: <<>> for {} or <<n>> for {"last_checked_message_id": n}
    scan,     \* scan[p]: the scan pass in slot p
    watch     \* history: what happened since the last pass ended and last fetched, and
              \* the messages whose links the passes so far have gathered

vars ==
    <<call, msgs, source, wf, data, scan, watch>>

\* No call of the pure functions on their own.
NoCall ==
    [pc |-> "none", links |-> <<>>, image |-> <<>>, video |-> <<>>, weird |-> <<>>,
     chunks |-> <<>>]

Slots ==
    1..MaxSlots

NewHandler ==
    [pc |-> "pending", original |-> 0, delete_tried |-> FALSE, deleted |-> FALSE,
     dest_found |-> FALSE, pt |-> [k |-> 1, i |-> 0],
     sent |-> <<>>, commands |-> 0]

IdlePass ==
    [pc |-> "idle", ended |-> "none", last_checked_id |-> 0, new_last_checked_id |-> 0,
     fetched |-> {}, image |-> <<>>, video |-> <<>>, weird |-> <<>>,
     members |-> <<>>, m |-> 0, pt |-> [k |-> 1, i |-> 0], log |-> <<>>,
     after_run |-> FALSE, after_fetch |-> FALSE, added_between |-> FALSE,
     added_since_fetch |-> FALSE]

Init ==
    /\ call = NoCall
    /\ msgs = <<>>
    /\ source = {}
    /\ wf = <<>>
    /\ data = <<>>
    /\ scan = [p \in Slots |-> IdlePass]
    /\ watch = [ran |-> FALSE, fetched |-> FALSE, since_end |-> FALSE, since_fetch |-> FALSE,
                included |-> {}]

(***************************************************************************)
(* Users post messages; the gateway delivers each as an on_message event.  *)
(***************************************************************************)
Post(message) ==
    /\ Len(msgs) < MaxPosts
    /\ UNCHANGED call
    /\ msgs' = Append(msgs, message)
    /\ source' = IF message.channel = "source" THEN source \cup {Len(msgs) + 1} ELSE source
    /\ wf' = Append(wf, NewHandler)
    /\ watch' = IF message.channel = "source"
                THEN [watch EXCEPT !.since_end = TRUE, !.since_fetch = TRUE]
                ELSE watch
    /\ UNCHANGED <<data, scan>>

PostPlain ==
    \E message \in PlainPosts : Post(message)

\* A message leaves the source channel: its author or a moderator deletes it, or a
\* relocation does (DeleteMessage).
Remove(id) ==
    /\ id \in source
    /\ UNCHANGED call
    /\ source' = source \ {id}
    /\ UNCHANGED <<msgs, wf, data, scan, watch>>

PostReply ==
    \E r \in 1..Len(msgs) : \E message \in Replies(r) : Post(message)

(***************************************************************************)
(* on_message (prime.py:76-182).  Each action runs the handler from one    *)
(* await to the next.                                                      *)
(***************************************************************************)
\* Mutant of Dispatched: the handler returns without the call of process_commands.
ReturnedWithoutDispatch(h) ==
    [h EXCEPT !.pc = "done"]

\* await bot.process_commands(message); return
Dispatched(h) ==
    [h EXCEPT !.pc = "done", !.commands = @ + 1]

\* Mutant of Triggers: the mention of the bot is not required.
TriggersWithoutMention(message) ==
    /\ message.channel = "source"
    /\ message.reference # 0

\* prime.py:82-93: the guards a message of a human author must pass.
Triggers(message) ==
    /\ message.channel = "source"
    /\ message.reference # 0
    /\ message.mentions_bot

\* prime.py:79-80: if message.author.bot: return
Ignored(h) ==
    [h EXCEPT !.pc = "done"]

\* prime.py:77-97, up to the await of fetch_message.
OnMessage(id) ==
    /\ wf[id].pc = "pending"
    /\ UNCHANGED call
    /\ wf' = [wf EXCEPT ![id] =
                IF msgs[id].bot THEN Ignored(@)
                ELSE IF ~Triggers(msgs[id]) THEN Dispatched(@)
                ELSE [@ EXCEPT !.pc = "fetch"]]
    /\ UNCHANGED <<msgs, source, data, scan, watch>>

\* channel.fetch_message(id): the message, discord.NotFound, or another HTTPException.
FetchOutcomes(r) ==
    (IF r \in source THEN {"ok"} ELSE {"NotFound"}) \cup {"HTTPException"}

\* prime.py:105-130: the link list of the original; none ends the handler, else the
\* handler awaits original_message.delete().
AfterFetch(h, r) ==
    IF all_links(r, msgs[r].content) = <<>>
    THEN Dispatched([h EXCEPT !.original = r])
    ELSE [h EXCEPT !.pc = "delete", !.original = r]

\* prime.py:95-103, the await of fetch_message returns.
FetchMessage(id) ==
    /\ wf[id].pc = "fetch"
    /\ UNCHANGED call
    /\ \E outcome \in FetchOutcomes(msgs[id].reference) :
         wf' = [wf EXCEPT ![id] =
                  IF outcome = "ok" THEN AfterFetch(@, msgs[id].reference)
                  ELSE Dispatched(@)]
    /\ UNCHANGED <<msgs, source, data, scan, watch>>

\* Mutant of DeleteOutcomes: the delete of a message that is gone succeeds as well.
DeleteOutcomesOfGoneToo(r) ==
    {"ok", "Forbidden", "HTTPException"}

\* message.delete(): done, discord.Forbidden, or another HTTPException (NotFound when
\* the message is gone already).
DeleteOutcomes(r) ==
    (IF r \in source THEN {"ok", "Forbidden"} ELSE {"NotFound"}) \cup {"HTTPException"}

\* Mutant of ReplayLists: the text of the original is not reposted.
ReplayListsWithoutText(r) ==
    LET c == msgs[r].content
    IN  [text  |-> <<>>,
         image |-> image_links(r, c),
         video |-> video_links(r, c),
         weird |-> weird_links(r, c)]

\* The lists the replay walks (prime.py:119-125, 148).
ReplayLists(r) ==
    LET c == msgs[r].content
    IN  [text  |-> IF stripped_text[c] # <<>> THEN << <<r, 0>> >> ELSE <<>>,
         image |-> image_links(r, c),
         video |-> video_links(r, c),
         weird |-> weird_links(r, c)]

\* Mutant of DeleteFailed: the failure is logged and the replay goes on.
DeleteFailedGoesOn(h) ==
    [h EXCEPT !.pc = "send", !.delete_tried = TRUE, !.dest_found = TRUE,
              !.pt = PointFrom(1, ReplayLists(h.original))]

\* prime.py:131-138: a failed delete ends the handler.
DeleteFailed(h) ==
    Dispatched([h EXCEPT !.delete_tried = TRUE])

\* prime.py:140-155: the destination channel, then the first send of the replay.
AfterDelete(h, dest_channel) ==
    LET d == [h EXCEPT !.delete_tried = TRUE, !.deleted = TRUE, !.dest_found = dest_channel]
        first == PointFrom(1, ReplayLists(h.original))
    IN  IF ~dest_channel \/ AtEnd(first)
        THEN Dispatched(d)
        ELSE [d EXCEPT !.pc = "send", !.pt = first]

\* prime.py:127-145, the await of delete returns.
DeleteMessage(id) ==
    /\ wf[id].pc = "delete"
    /\ UNCHANGED call
    /\ LET r == wf[id].original
       IN  \E outcome \in DeleteOutcomes(r) :
             IF outcome = "ok"
             THEN /\ source' = source \ {r}
                  /\ \E dest_channel \in BOOLEAN :
                       wf' = [wf EXCEPT ![id] = AfterDelete(@, dest_channel)]
             ELSE /\ source' = source
                  /\ wf' = [wf EXCEPT ![id] = DeleteFailed(@)]
    /\ UNCHANGED <<msgs, data, scan, watch>>

\* Mutant of AfterSend: a failed send ends the replay.
AfterSendStopOnFailure(h, ok) ==
    LET lists == ReplayLists(h.original)
        s == [h EXCEPT !.sent = Append(@, [payload |-> Payload(h.pt, lists), ok |-> ok])]
        next == NextPoint(h.pt, lists)
    IN  IF AtEnd(next) \/ ~ok THEN Dispatched(s) ELSE [s EXCEPT !.pt = next]

\* prime.py:147-182: a send returns or raises HTTPException (caught and printed); the
\* loops go on to the next send, and after the last to process_commands.
AfterSend(h, ok) ==
    LET lists == ReplayLists(h.original)
        s == [h EXCEPT !.sent = Append(@, [payload |-> Payload(h.pt, lists), ok |-> ok])]
        next == NextPoint(h.pt, lists)
    IN  IF AtEnd(next) THEN Dispatched(s) ELSE [s EXCEPT !.pt = next]

Send(id) ==
    /\ wf[id].pc = "send"
    /\ UNCHANGED call
    /\ \E ok \in BOOLEAN : wf' = [wf EXCEPT ![id] = AfterSend(@, ok)]
    /\ UNCHANGED <<msgs, source, data, scan, watch>>

(***************************************************************************)
(* daily_media_scan (prime.py:186-284).  Each action runs the pass from    *)
(* one await to the next.                                                  *)
(***************************************************************************)
Busy ==
    { p \in Slots : scan[p].pc # "idle" }

\* Mutant of LoopMayStart: the timer starts a pass while an earlier one is suspended.
LoopMayStartOverlapping(p) ==
    /\ scan[p].pc = "idle"
    /\ \A q \in Slots : q < p => scan[q].pc # "idle"

\* prime.py:186 and 71-72: tasks.loop awaits the coroutine and only then sleeps for
\* the interval and calls it again, and on_ready starts the loop only when it is not
\* running: a pass begins when no pass is in flight.
LoopMayStart(p) ==
    /\ p = 1
    /\ Busy = {}

\* load_data(), data.get("last_checked_message_id") (prime.py:26-32, 194-195): None
\* when the record is {}.
LastChecked ==
    IF data = <<>> THEN 0 ELSE data[1]

\* Ascending order of a set of identifiers.
RECURSIVE Ascending(_)
Ascending(S) ==
    IF S = {} THEN <<>>
    ELSE LET least == CHOOSE x \in S : \A y \in S : x <= y
         IN  <<least>> \o Ascending(S \ {least})

Reverse(s) ==
    [i \in 1..Len(s) |-> s[Len(s) + 1 - i]]

\* Mutant of History: the whole channel, whatever the cursor.
HistoryFromStart(last_checked_id) ==
    Reverse(Ascending(source))

\* Mutant of History: the message at the cursor is listed again.
HistoryFromCursorOn(last_checked_id) ==
    IF last_checked_id # 0
    THEN Ascending({ id \in source : id >= last_checked_id })
    ELSE Reverse(Ascending(source))

\* prime.py:202-206: channel.history(limit=None, after=...) lists the messages
\* after the cursor oldest first; channel.history(limit=None) lists the whole
\* channel newest first.
History(last_checked_id) ==
    IF last_checked_id # 0
    THEN Ascending({ id \in source : id > last_checked_id })
    ELSE Reverse(Ascending(source))

\* Mutant of Advance: the cursor follows the message at hand.
AdvanceToLatestSeen(new_last_checked_id, id) ==
    id

\* prime.py:214-215
Advance(new_last_checked_id, id) ==
    IF id > new_last_checked_id THEN id ELSE new_last_checked_id

\* Mutant of Gather: a message of a bot is skipped before the cursor follows it.
RECURSIVE GatherHumansOnly(_, _, _)
GatherHumansOnly(history, k, acc) ==
    IF k > Len(history) THEN acc
    ELSE LET id == history[k]
             c == msgs[id].content
         IN  IF msgs[id].bot
             THEN GatherHumansOnly(history, k + 1, acc)
             ELSE GatherHumansOnly(history, k + 1,
                         [acc EXCEPT !.new_last_checked_id = Advance(@, id),
                                     !.image = @ \o image_links(id, c),
                                     !.video = @ \o video_links(id, c),
                                     !.weird = @ \o weird_links(id, c)])

\* prime.py:213-237: the loop over the history.
RECURSIVE Gather(_, _, _)
Gather(history, k, acc) ==
    IF k > Len(history) THEN acc
    ELSE LET id == history[k]
             c == msgs[id].content
             seen == [acc EXCEPT !.new_last_checked_id = Advance(@, id)]
         IN  IF msgs[id].bot
             THEN Gather(history, k + 1, seen)
             ELSE Gather(history, k + 1,
                         [seen EXCEPT !.image = @ \o image_links(id, c),
                                      !.video = @ \o video_links(id, c),
                                      !.weird = @ \o weird_links(id, c)])

\* The lists the fan-out walks for every member.
FanOutLists(s) ==
    [text |-> <<>>, image |-> s.image, video |-> s.video, weird |-> s.weird]

\* prime.py:241-243, 249-251, 283-284: data["last_checked_message_id"] = ...;
\* save_data(data); the pass is over.
Saved(s, how) ==
    [s EXCEPT !.pc = "idle", !.ended = how]

\* Mutant of NextHuman: a member that is a bot is served like any other.
NextMember(members, m) ==
    IF m > Len(members) THEN 0 ELSE m

\* prime.py:254-258: the next member that is not a bot, whose create_dm() the pass
\* awaits; 0 after the last member.
RECURSIVE NextHuman(_, _)
NextHuman(members, m) ==
    IF m > Len(members) THEN 0
    ELSE IF members[m].bot THEN NextHuman(members, m + 1)
    ELSE m

\* prime.py:194-200: the pass starts; without the source channel it returns at once.
ScanStart(p) ==
    /\ LoopMayStart(p)
    /\ UNCHANGED call
    /\ \E channel \in BOOLEAN :
         LET s == [IdlePass EXCEPT !.last_checked_id = LastChecked,
                                   !.after_run = watch.ran,
                                   !.after_fetch = watch.fetched,
                                   !.added_between = watch.since_end]
         IN  IF channel
             THEN /\ scan' = [scan EXCEPT ![p] = [s EXCEPT !.pc = "history"]]
                  /\ watch' = watch
             ELSE /\ scan' = [scan EXCEPT ![p] = [s EXCEPT !.ended = "nochannel"]]
                  /\ watch' = [watch EXCEPT !.ran = TRUE, !.fetched = FALSE,
                                            !.since_end = FALSE]
    /\ UNCHANGED <<msgs, source, wf, data>>

\* The messages whose links are in the accumulators of pass record s.
IncludedIn(s) ==
    { (s.image \o s.video \o s.weird)[k][1] : k \in DOMAIN (s.image \o s.video \o s.weird) }

\* The pass ends with the cursor saved.
PassEnds(p, s, how) ==
    /\ scan' = [scan EXCEPT ![p] = Saved(s, how)]
    /\ data' = <<s.new_last_checked_id>>
    /\ watch' = [watch EXCEPT !.ran = TRUE, !.fetched = TRUE, !.since_end = FALSE,
                              !.since_fetch = IF scan[p].pc = "history" THEN FALSE ELSE @,
                              !.included = @ \cup IncludedIn(s)]

\* Mutant of RoleMissing: the pass returns without the cursor saved.
RoleMissingReturns(p, s) ==
    /\ scan' = [scan EXCEPT ![p] = [s EXCEPT !.pc = "idle", !.ended = "norole"]]
    /\ data' = data
    /\ watch' = [watch EXCEPT !.ran = TRUE, !.fetched = TRUE, !.since_end = FALSE,
                              !.since_fetch = FALSE, !.included = @ \cup IncludedIn(s)]

\* prime.py:247-251: without the role the cursor is saved and the pass returns.
RoleMissing(p, s) ==
    PassEnds(p, s, "norole")

\* Mutant of PassGoesTo: the cursor is saved before the first member is served.
PassGoesToCursorFirst(p, s, m) ==
    IF m = 0
    THEN PassEnds(p, s, "fanout")
    ELSE /\ scan' = [scan EXCEPT ![p] = [s EXCEPT !.pc = "open", !.m = m]]
         /\ data' = IF scan[p].pc = "history" THEN <<s.new_last_checked_id>> ELSE data
         /\ watch' = [watch EXCEPT !.since_fetch = IF scan[p].pc = "history" THEN FALSE ELSE @,
                                   !.included = @ \cup IncludedIn(s)]

\* The pass goes on to member m (0: no member is left).
PassGoesTo(p, s, m) ==
    IF m = 0
    THEN PassEnds(p, s, "fanout")
    ELSE /\ scan' = [scan EXCEPT ![p] = [s EXCEPT !.pc = "open", !.m = m]]
         /\ data' = data
         /\ watch' = [watch EXCEPT !.since_fetch = IF scan[p].pc = "history" THEN FALSE ELSE @,
                                   !.included = @ \cup IncludedIn(s)]

\* prime.py:202-258: the history arrives; the links are gathered; then the pass ends
\* (no links, or no role) or opens the direct channel of the first member.
ScanHistory(p) ==
    /\ scan[p].pc = "history"
    /\ UNCHANGED call
    /\ LET history == History(scan[p].last_checked_id)
           s == Gather(history, 1,
                       [scan[p] EXCEPT !.new_last_checked_id = scan[p].last_checked_id,
                                       !.fetched = { history[k] : k \in DOMAIN history },
                                       !.added_since_fetch = watch.since_fetch])
       IN  IF s.image = <<>> /\ s.video = <<>> /\ s.weird = <<>>
           THEN PassEnds(p, s, "nolinks")
           ELSE \E role \in RoleOutcomes :
                  IF ~role.found
                  THEN RoleMissing(p, s)
                  ELSE PassGoesTo(p, [s EXCEPT !.members = role.members],
                                  NextHuman(role.members, 1))
    /\ UNCHANGED <<msgs, source, wf>>

\* prime.py:258, 277-280: create_dm() returns, or raises Forbidden or another
\* HTTPException, which ends this member's delivery.
ScanOpen(p) ==
    /\ scan[p].pc = "open"
    /\ UNCHANGED call
    /\ \E ok \in BOOLEAN :
         LET s == [scan[p] EXCEPT !.log = Append(@, [to |-> scan[p].members[scan[p].m].name,
                                                      payload |-> [kind |-> "open", body |-> <<>>],
                                                      ok |-> ok])]
         IN  IF ok
             THEN /\ scan' = [scan EXCEPT ![p] =
                                [s EXCEPT !.pc = "send", !.pt = PointFrom(1, FanOutLists(s))]]
                  /\ UNCHANGED <<data, watch>>
             ELSE PassGoesTo(p, s, NextHuman(s.members, s.m + 1))
    /\ UNCHANGED <<msgs, source, wf>>

\* Mutant of SendFailed: the failure ends the pass, without the cursor saved.
SendFailedEndsPass(p, s) ==
    /\ scan' = [scan EXCEPT ![p] = [s EXCEPT !.pc = "idle", !.ended = "fanout"]]
    /\ UNCHANGED <<data, watch>>

\* Mutant of SendFailed: the failure is caught around the one send, and the loops go
\* on with the next send to the same member.
SendFailedGoesOn(p, s) ==
    LET next == NextPoint(s.pt, FanOutLists(s))
    IN  IF AtEnd(next) THEN PassGoesTo(p, s, NextHuman(s.members, s.m + 1))
        ELSE /\ scan' = [scan EXCEPT ![p] = [s EXCEPT !.pt = next]]
             /\ UNCHANGED <<data, watch>>

\* prime.py:277-280: the exception of a send is caught outside the loops of this
\* member: the rest of this member's sends is skipped and the next member is served.
SendFailed(p, s) ==
    PassGoesTo(p, s, NextHuman(s.members, s.m + 1))

\* prime.py:260-280: a dm.send returns or raises Forbidden or another HTTPException.
ScanSend(p) ==
    /\ scan[p].pc = "send"
    /\ UNCHANGED call
    /\ \E ok \in BOOLEAN :
         LET lists == FanOutLists(scan[p])
             s == [scan[p] EXCEPT !.log = Append(@, [to |-> scan[p].members[scan[p].m].name,
                                                      payload |-> Payload(scan[p].pt, lists),
                                                      ok |-> ok])]
             next == NextPoint(s.pt, lists)
         IN  IF ~ok THEN SendFailed(p, s)
             ELSE IF AtEnd(next) THEN PassGoesTo(p, s, NextHuman(s.members, s.m + 1))
             ELSE /\ scan' = [scan EXCEPT ![p] = [s EXCEPT !.pt = next]]
                  /\ UNCHANGED <<data, watch>>
    /\ UNCHANGED <<msgs, source, wf>>

(***************************************************************************)
(* The program.                                                            *)
(***************************************************************************)
\* The relocation workflow on its own, with MaxPosts inbound messages: no scan pass
\* runs.
NextRelocation ==
    \/ PostPlain
    \/ PostReply
    \/ \E id \in DOMAIN wf : OnMessage(id)
    \/ \E id \in DOMAIN wf : FetchMessage(id)
    \/ \E id \in DOMAIN wf : DeleteMessage(id)
    \/ \E id \in DOMAIN wf : Send(id)

SpecRelocation ==
    Init /\ [][NextRelocation]_vars

\* The scan on its own, with MaxScanned messages that come and go in the source
\* channel.
NextScan ==
    \/ Len(msgs) < MaxScanned /\ PostPlain
    \/ \E id \in source : Remove(id)
    \/ \E p \in Slots : ScanStart(p)
    \/ \E p \in Slots : ScanHistory(p)
    \/ \E p \in Slots : ScanOpen(p)
    \/ \E p \in Slots : ScanSend(p)

SpecScan ==
    Init /\ [][NextScan]_vars

\* The whole program: the handlers and the scan side by side, with MaxScanned
\* inbound messages.
Next ==
    \/ Len(msgs) < MaxScanned /\ PostPlain
    \/ Len(msgs) < MaxScanned /\ PostReply
    \/ \E id \in DOMAIN wf : OnMessage(id)
    \/ \E id \in DOMAIN wf : FetchMessage(id)
    \/ \E id \in DOMAIN wf : DeleteMessage(id)
    \/ \E id \in DOMAIN wf : Send(id)
    \/ \E p \in Slots : ScanStart(p)
    \/ \E p \in Slots : ScanHistory(p)
    \/ \E p \in Slots : ScanOpen(p)
    \/ \E p \in Slots : ScanSend(p)

Spec ==
    Init /\ [][Next]_vars

(***************************************************************************)
(* The pure functions on their own: a combined link list is classified     *)
(* (prime.py:119-125) and its image links are cut into batches              *)
(* (prime.py:156-157).                                                      *)
(***************************************************************************)
InitPure ==
    /\ msgs = <<>>
    /\ source = {}
    /\ wf = <<>>
    /\ data = <<>>
    /\ scan = [p \in Slots |-> IdlePass]
    /\ watch = [ran |-> FALSE, fetched |-> FALSE, since_end |-> FALSE, since_fetch |-> FALSE,
                included |-> {}]
    /\ \E links \in LinkLists : call = [NoCall EXCEPT !.pc = "input", !.links = links]

Classify ==
    /\ call.pc = "input"
    /\ LET lists == Classified(call.links)
       IN  call' = [call EXCEPT !.pc = "classified", !.image = lists.image,
                                !.video = lists.video, !.weird = lists.weird]
    /\ UNCHANGED <<msgs, source, wf, data, scan, watch>>

Chunk ==
    /\ call.pc = "classified"
    /\ call' = [call EXCEPT !.pc = "chunked",
                            !.chunks = chunk_list(call.image, EmbedsPerMessage)]
    /\ UNCHANGED <<msgs, source, wf, data, scan, watch>>

NextPure ==
    \/ Classify
    \/ Chunk

SpecPure ==
    InitPure /\ [][NextPure]_vars

(***************************************************************************)
(* Properties.                                                             *)
(***************************************************************************)
MaxOf(S) ==
    CHOOSE x \in S : \A y \in S : y <= x

Ended(p) ==
    scan[p].pc = "idle" /\ scan[p].ended # "none"

EndedSaved(p) ==
    scan[p].pc = "idle" /\ scan[p].ended \in {"nolinks", "norole", "fanout"}

\* The sends of direct messages of the pass in slot p (create_dm is no message).
DirectMessages(p) ==
    SelectSeq(scan[p].log, LAMBDA e : e.payload.kind # "open")

\* What handler id tried to send to the destination channel, in order.
Attempted(id) ==
    [k \in DOMAIN wf[id].sent |-> wf[id].sent[k].payload]

\* The text or URL a reference stands for.
UrlOf(ref) ==
    IF ref[2] = 0 THEN stripped_text[msgs[ref[1]].content]
    ELSE combined_urls[msgs[ref[1]].content][ref[2]]

\* A payload with its references replaced by what they stand for.
Shown(payload) ==
    [kind |-> payload.kind, body |-> [k \in DOMAIN payload.body |-> UrlOf(payload.body[k])]]

\* The batches of at most ten image links, each later link as a message of its own.
Batches(image) ==
    [j \in 1..((Len(image) + 9) \div 10) |->
        [kind |-> "embeds", body |-> SubSeq(image, 10 * (j - 1) + 1, Min(10 * j, Len(image)))]]

Singles(links) ==
    [j \in DOMAIN links |-> [kind |-> "link", body |-> <<links[j]>>]]

\* Every send the replay of original message r holds.
ExpectedReplay(r) ==
    LET c == msgs[r].content
    IN  (IF stripped_text[c] = <<>> THEN <<>>
         ELSE << [kind |-> "content", body |-> << <<r, 0>> >>] >>)
        \o Batches(image_links(r, c))
        \o Singles(video_links(r, c))
        \o Singles(weird_links(r, c))

\* Every send the fan-out of the pass in slot p holds for one member.
ExpectedFanOut(p) ==
    Batches(scan[p].image) \o Singles(scan[p].video) \o Singles(scan[p].weird)

\* What the pass in slot p tried to send to the member called name, in order.
SentTo(p, name) ==
    SelectSeq(DirectMessages(p), LAMBDA e : e.to = name)

Opened(p, name) ==
    \E k \in DOMAIN scan[p].log :
        /\ scan[p].log[k].to = name
        /\ scan[p].log[k].payload.kind = "open"
        /\ scan[p].log[k].ok

OpenTried(p, name) ==
    \E k \in DOMAIN scan[p].log :
        scan[p].log[k].to = name /\ scan[p].log[k].payload.kind = "open"

C2_CursorIsMaxFetched ==
    \A p \in Slots :
        EndedSaved(p) =>
            data = << IF scan[p].fetched = {} THEN scan[p].last_checked_id
                      ELSE MaxOf(scan[p].fetched) >>

\* C2 witness: a pass that fetched two messages has ended after the fan-out.
C2_Witness ==
    \E p \in Slots :
        /\ EndedSaved(p)
        /\ scan[p].ended = "fanout"
        /\ Cardinality(scan[p].fetched) >= 2

\* C3 as claimed: a pass that ran after an earlier pass had ended, with no message
\* posted in the source channel between the end of the one and the start of the
\* other, has sent no direct message.
C3_IdempotentBetweenRuns ==
    \A p \in Slots :
        (Ended(p) /\ scan[p].after_run /\ ~scan[p].added_between)
            => DirectMessages(p) = <<>>

\* C3 amended: a pass that ran after an earlier pass that fetched the history, with
\* no message posted in the source channel since that fetch, has sent no direct
\* message.
C3_IdempotentSinceFetch ==
    \A p \in Slots :
        (Ended(p) /\ scan[p].after_fetch /\ ~scan[p].added_since_fetch)
            => DirectMessages(p) = <<>>

\* C3 witness: such a second pass has fetched and ended while a human's message with
\* links is in the source channel.
C3_Witness ==
    \E p \in Slots :
        /\ EndedSaved(p)
        /\ scan[p].after_fetch
        /\ ~scan[p].added_since_fetch
        /\ \E id \in source : ~msgs[id].bot /\ combined_urls[msgs[id].content] # <<>>

\* C4: a handler whose delete failed has sent nothing and is over; every send to the
\* destination channel follows a successful delete by the same handler; and a message
\* is gone from the source channel only when some handler's delete of it succeeded.
C4_DeleteFailureAborts ==
    /\ \A id \in DOMAIN wf :
          /\ wf[id].sent # <<>> => wf[id].deleted
          /\ (wf[id].delete_tried /\ ~wf[id].deleted)
                => wf[id].sent = <<>> /\ wf[id].pc = "done"
    /\ \A r \in DOMAIN msgs :
          (msgs[r].channel = "source" /\ r \notin source)
              => \E id \in DOMAIN wf : wf[id].original = r /\ wf[id].deleted

\* C4 witness: a handler's delete has failed and the original is in the source channel.
C4_Witness ==
    \E id \in DOMAIN wf :
        /\ wf[id].delete_tried
        /\ ~wf[id].deleted
        /\ wf[id].original \in source

\* C5: a handler has issued a delete or a send only for a message of a human author, in
\* the source channel, that replies to a message and mentions the bot, after the fetch
\* of that message has succeeded and found at least one link in it.
C5_NoSideEffectUnlessTriggered ==
    \A id \in DOMAIN wf :
        (wf[id].pc \in {"delete", "send"} \/ wf[id].delete_tried \/ wf[id].sent # <<>>)
            => /\ ~msgs[id].bot
               /\ msgs[id].channel = "source"
               /\ msgs[id].reference # 0
               /\ msgs[id].mentions_bot
               /\ wf[id].original = msgs[id].reference
               /\ Contents[msgs[wf[id].original].content].attachments
                    \o findall(Contents[msgs[wf[id].original].content].content) # <<>>

\* C5 witness: a handler has deleted the original and sent to the destination channel.
C5_Witness ==
    \E id \in DOMAIN wf : wf[id].deleted /\ wf[id].sent # <<>>

HandlerStep(id) ==
    OnMessage(id) \/ FetchMessage(id) \/ DeleteMessage(id) \/ Send(id)

C7_ReplayAttemptsEverySend ==
    \A id \in DOMAIN wf :
        (wf[id].pc = "done" /\ wf[id].deleted /\ wf[id].dest_found)
            => Attempted(id) = ExpectedReplay(wf[id].original)

\* C7 witness: a replay is over in which a send failed and a later send was attempted.
C7_Witness ==
    \E id \in DOMAIN wf :
        /\ wf[id].pc = "done"
        /\ \E k \in DOMAIN wf[id].sent : ~wf[id].sent[k].ok /\ k < Len(wf[id].sent)

\* The handler has moved the original of the scenario: no attachment and the text of
\* the scenario.
ScenarioMoved(id) ==
    /\ wf[id].pc = "done"
    /\ wf[id].deleted
    /\ wf[id].dest_found
    /\ Contents[msgs[wf[id].original].content]
         = [attachments |-> <<>>, content |-> TextScenario]

\* C8 as claimed: in the scenario the original is deleted and the sends are one image
\* batch with the CDN link and one message with the example.com link, and no text.
C8_ScenarioSendsNoText ==
    \A id \in DOMAIN wf :
        ScenarioMoved(id) =>
            /\ wf[id].original \notin source
            /\ [k \in DOMAIN wf[id].sent |-> Shown(wf[id].sent[k].payload)]
                 = << [kind |-> "embeds", body |-> <<UrlCdnPng>>],
                      [kind |-> "link", body |-> <<UrlExamplePage>>] >>

\* C8 amended: in the scenario the original is deleted and the sends are the text of
\* the original, then one image batch with the CDN link, then one message with the
\* example.com link.
C8_ScenarioSendsTextThenLinks ==
    \A id \in DOMAIN wf :
        ScenarioMoved(id) =>
            /\ wf[id].original \notin source
            /\ [k \in DOMAIN wf[id].sent |-> Shown(wf[id].sent[k].payload)]
                 = << [kind |-> "content", body |-> <<TextScenario>>],
                      [kind |-> "embeds", body |-> <<UrlCdnPng>>],
                      [kind |-> "link", body |-> <<UrlExamplePage>>] >>

\* C8 witness: a handler has moved the original of the scenario.
C8_Witness ==
    \E id \in DOMAIN wf : ScenarioMoved(id)

\* C9: a pass that reached the fan-out ends with the direct channel of every member
\* that is not a bot tried and with the updated cursor persisted, whatever failed.
C9_FanOutServesEveryMember ==
    \A p \in Slots :
        (scan[p].pc = "idle" /\ scan[p].ended = "fanout") =>
            /\ \A m \in DOMAIN scan[p].members :
                  ~scan[p].members[m].bot => OpenTried(p, scan[p].members[m].name)
            /\ data = <<scan[p].new_last_checked_id>>
            /\ scan[p].new_last_checked_id = MaxOf(scan[p].fetched)

\* C9 witness: a fan-out is over in which the delivery to the first of two humans
\* failed.
C9_Witness ==
    \E p \in Slots :
        /\ scan[p].pc = "idle"
        /\ scan[p].ended = "fanout"
        /\ Len(scan[p].members) = Len(Holders)
        /\ ~scan[p].log[1].ok \/ ~scan[p].log[2].ok
        /\ Opened(p, scan[p].members[Len(Holders)].name)

\* C10 as claimed: every member whose direct channel opened is sent every image
\* batch, video link and weird link of the pass, whichever sends fail.
C10_SiblingSendsStillAttempted ==
    \A p \in Slots :
        (scan[p].pc = "idle" /\ scan[p].ended = "fanout") =>
            \A m \in DOMAIN scan[p].members :
                Opened(p, scan[p].members[m].name) =>
                    [k \in DOMAIN SentTo(p, scan[p].members[m].name) |->
                        SentTo(p, scan[p].members[m].name)[k].payload] = ExpectedFanOut(p)

\* C10 amended: the sends to a member are the sends of the pass in order up to the
\* first send that fails: a failed send is the last one to that member, and without
\* a failure the member is sent them all.
C10_FailedSendEndsMemberDelivery ==
    \A p \in Slots :
        (scan[p].pc = "idle" /\ scan[p].ended = "fanout") =>
            \A m \in DOMAIN scan[p].members :
                Opened(p, scan[p].members[m].name) =>
                    LET to_m == SentTo(p, scan[p].members[m].name)
                        n == Len(to_m)
                    IN  /\ n >= 1
                        /\ n <= Len(ExpectedFanOut(p))
                        /\ [k \in 1..n |-> to_m[k].payload] = SubSeq(ExpectedFanOut(p), 1, n)
                        /\ \A k \in 1..(n - 1) : to_m[k].ok
                        /\ to_m[n].ok => n = Len(ExpectedFanOut(p))

\* C10 witness: a fan-out is over in which a send to the first human failed with
\* sends left for that member, and the last human was sent them all.
C10_Witness ==
    \E p \in Slots :
        /\ scan[p].pc = "idle"
        /\ scan[p].ended = "fanout"
        /\ Len(scan[p].members) = Len(Holders)
        /\ LET first == SentTo(p, scan[p].members[1].name)
               last == SentTo(p, scan[p].members[Len(Holders)].name)
           IN  /\ first # <<>>
               /\ ~first[Len(first)].ok
               /\ Len(first) < Len(ExpectedFanOut(p))
               /\ Len(last) = Len(ExpectedFanOut(p))
               /\ last[Len(last)].ok

\* C11: a pass that found a link and no role has sent no direct message, has opened
\* no direct channel, and has persisted the maximum identifier it fetched.
C11_NoRoleStillAdvances ==
    \A p \in Slots :
        (scan[p].pc = "idle" /\ scan[p].ended = "norole") =>
            /\ scan[p].image \o scan[p].video \o scan[p].weird # <<>>
            /\ scan[p].log = <<>>
            /\ data = <<MaxOf(scan[p].fetched)>>

\* C11 witness: such a pass has ended with a cursor above the one it started from,
\* which an earlier pass had saved.
C11_Witness ==
    \E p \in Slots :
        /\ scan[p].pc = "idle"
        /\ scan[p].ended = "norole"
        /\ scan[p].last_checked_id > 0
        /\ LastChecked > scan[p].last_checked_id

\* Whether the reference is to an attachment of more than 8 MiB.
Oversized(ref) ==
    LET attachments == Contents[msgs[ref[1]].content].attachments
    IN  /\ ref[2] \in DOMAIN attachments
        /\ attachments[ref[2]].size > 8 * 1024 * 1024

\* C12: no direct message carries, in any form, an attachment of more than 8 MiB.
C12_OversizedNeverDelivered ==
    \A p \in Slots :
        \A k \in DOMAIN scan[p].log :
            \A j \in DOMAIN scan[p].log[k].payload.body :
                ~Oversized(scan[p].log[k].payload.body[j])

RECURSIVE Concatenation(_)
Concatenation(batches) ==
    IF batches = <<>> THEN <<>> ELSE Head(batches) \o Concatenation(Tail(batches))

\* C13: chunk_list(links, 10) of N image links yields ceil(N/10) batches of 1 to 10
\* links each, whose concatenation in the order yielded is the input list.
C13_ChunkingLaw ==
    call.pc = "chunked" =>
        /\ Len(call.chunks) = (Len(call.image) + 9) \div 10
        /\ \A k \in DOMAIN call.chunks : Len(call.chunks[k]) \in 1..10
        /\ Concatenation(call.chunks) = call.image

\* C13 witness: more than twenty image links, one of them twice in a row, were cut
\* into three batches, the last a partial one.
C13_Witness ==
    /\ call.pc = "chunked"
    /\ Len(call.image) > 20
    /\ call.image[1] = call.image[2]
    /\ Len(call.chunks) = 3
    /\ Len(call.chunks[3]) < 10

\* What the URL is by its construction: its extension in lower case and whether it
\* lies on the attachment CDN decide its class.
ClassOf(i) ==
    LET ext == Catalogue[i].ext
    IN  IF ext \notin {"png", "jpg", "jpeg", "gif", "webp", "mp4", "mov", "avi", "webm"}
           /\ ~Catalogue[i].cdn
        THEN "weird"
        ELSE IF ext \in {"png", "jpg", "jpeg", "gif", "webp"} THEN "image"
        ELSE "video"

\* C14: every link of the combined list lands in the one list of its class (weird
\* without media extension and CDN substring, image by an image extension, video
\* otherwise), as often as it occurs and in its original relative order.
C14_ClassificationPartitions ==
    call.pc \in {"classified", "chunked"} =>
        /\ call.image = SelectSeq(call.links, LAMBDA i : ClassOf(i) = "image")
        /\ call.video = SelectSeq(call.links, LAMBDA i : ClassOf(i) = "video")
        /\ call.weird = SelectSeq(call.links, LAMBDA i : ClassOf(i) = "weird")

\* C14 witness: a list with links of all three classes was classified, among them
\* a CDN link without media extension (video) and an extension in upper case.
C14_Witness ==
    /\ call.pc = "classified"
    /\ call.weird # <<>>
    /\ \E k \in DOMAIN call.video :
         Catalogue[call.video[k]].cdn /\ Catalogue[call.video[k]].ext = ""
    /\ \E k \in DOMAIN call.image :
         Catalogue[call.image[k]].url # Lower(Catalogue[call.image[k]].url)

\* C15: at every moment of a relocation the sends attempted so far are the first
\* sends of the sequence text (if not blank), image batches, video links, weird
\* links, each group in the original order of its links: no send is attempted
\* before every send ahead of it in that sequence was.
C15_ReplayInOrder ==
    \A id \in DOMAIN wf :
        wf[id].sent # <<>> =>
            LET expected == ExpectedReplay(wf[id].original)
            IN  /\ Len(wf[id].sent) <= Len(expected)
                /\ Attempted(id) = SubSeq(expected, 1, Len(wf[id].sent))

\* C15 witness: a replay with a text, two image batches, a video link and a weird
\* link is over, all five sends attempted.
C15_Witness ==
    \E id \in DOMAIN wf :
        /\ wf[id].pc = "done"
        /\ [k \in DOMAIN wf[id].sent |-> wf[id].sent[k].payload.kind]
             = <<"content", "embeds", "embeds", "link", "link">>
        /\ Len(video_links(wf[id].original, msgs[wf[id].original].content)) = 1
        /\ Len(weird_links(wf[id].original, msgs[wf[id].original].content)) = 1

\* Every call the pass in slot p made for the member called name (create_dm and
\* the sends) returned.
AllSucceeded(p, name) ==
    /\ Opened(p, name)
    /\ \A k \in DOMAIN scan[p].log : scan[p].log[k].to = name => scan[p].log[k].ok

\* C16: when a fan-out is over, every member that is not a bot and for whom every
\* call succeeded was sent the ceil(I/10) image batches, then the V video links,
\* then the W weird links of the pass, in that order (so all of them the same
\* sequence); no direct channel was opened for a bot and nothing was sent to one.
C16_FanOutSameSequenceNoBots ==
    \A p \in Slots :
        /\ (scan[p].pc = "idle" /\ scan[p].ended = "fanout") =>
              \A m \in DOMAIN scan[p].members :
                  LET name == scan[p].members[m].name
                  IN  (~scan[p].members[m].bot /\ AllSucceeded(p, name)) =>
                          /\ [k \in DOMAIN SentTo(p, name) |-> SentTo(p, name)[k].payload]
                               = ExpectedFanOut(p)
                          /\ Len(SentTo(p, name))
                               = ((Len(scan[p].image) + 9) \div 10)
                                 + Len(scan[p].video) + Len(scan[p].weird)
        /\ \A k \in DOMAIN scan[p].log :
              \A h \in DOMAIN Holders :
                  Holders[h].name = scan[p].log[k].to => ~Holders[h].bot

\* C16 witness: a fan-out of two image batches, a video link and a weird link is
\* over; the role holds two humans and a bot, and both humans were sent all four.
C16_Witness ==
    \E p \in Slots :
        /\ scan[p].pc = "idle"
        /\ scan[p].ended = "fanout"
        /\ Len(scan[p].image) > 10
        /\ scan[p].video # <<>>
        /\ scan[p].weird # <<>>
        /\ \E m \in DOMAIN scan[p].members : scan[p].members[m].bot
        /\ \E m, n \in DOMAIN scan[p].members :
              /\ m # n
              /\ AllSucceeded(p, scan[p].members[m].name)
              /\ AllSucceeded(p, scan[p].members[n].name)
              /\ Len(SentTo(p, scan[p].members[m].name)) = 4
              /\ SentTo(p, scan[p].members[n].name) # <<>>

\* The pass in slot p has consumed the history it fetched.
Fetched(p) ==
    \/ scan[p].pc \in {"open", "send"}
    \/ scan[p].pc = "idle" /\ scan[p].ended \in {"nolinks", "norole", "fanout"}

\* C17: no link of a message a bot wrote is in the accumulators; and a pass whose
\* fetched messages are all written by bots or without a link has ended with no role
\* resolved, nothing sent, and the persisted cursor the maximum identifier fetched,
\* the bots' messages included (the cursor it started from when it fetched nothing).
C17_BotsCountForCursorOnly ==
    \A p \in Slots :
        /\ \A k \in DOMAIN (scan[p].image \o scan[p].video \o scan[p].weird) :
              ~msgs[(scan[p].image \o scan[p].video \o scan[p].weird)[k][1]].bot
        /\ ( /\ Fetched(p)
             /\ \A id \in scan[p].fetched :
                   msgs[id].bot \/ all_links(id, msgs[id].content) = <<>> )
           => /\ scan[p].pc = "idle"
              /\ scan[p].ended = "nolinks"
              /\ scan[p].members = <<>>
              /\ scan[p].log = <<>>
              /\ data = << IF scan[p].fetched = {} THEN scan[p].last_checked_id
                           ELSE MaxOf(scan[p].fetched) >>

\* C17 witness: a pass fetched a message without a link and, after it, a message
\* with links that a bot wrote, and saved the identifier of the bot's message.
C17_Witness ==
    \E p \in Slots :
        /\ scan[p].pc = "idle"
        /\ scan[p].ended = "nolinks"
        /\ \E id \in scan[p].fetched :
              /\ msgs[id].bot
              /\ all_links(id, msgs[id].content) # <<>>
              /\ data = <<id>>
        /\ \E id \in scan[p].fetched : ~msgs[id].bot

\* C18: the persisted cursor changes only in a step that ends a running scan pass
\* after its history was consumed (no links, no role, or the fan-out over), so once
\* per pass, to the cursor of that pass, and no handler of on_message moves in that
\* step; a pass sends and opens nothing once it has ended; and a pass that ends for
\* want of the source channel leaves the cursor as it was.
C18_CursorWrittenOnlyAtPassEnd ==
    [][ /\ data' # data =>
              /\ wf' = wf
              /\ \E p \in Slots :
                    /\ scan[p].pc \in {"history", "open", "send"}
                    /\ scan'[p].pc = "idle"
                    /\ scan'[p].ended \in {"nolinks", "norole", "fanout"}
                    /\ data' = <<scan'[p].new_last_checked_id>>
        /\ \A p \in Slots :
              /\ Len(scan'[p].log) > Len(scan[p].log) => scan[p].pc \in {"open", "send"}
              /\ (scan'[p] # scan[p] /\ scan'[p].ended = "nochannel") => data' = data
      ]_vars

\* C18 witness: a relocation has deleted and replayed an original, and a pass has
\* ended its fan-out with sends made and its cursor persisted.
C18_Witness ==
    /\ \E id \in DOMAIN wf : wf[id].deleted /\ wf[id].sent # <<>>
    /\ \E p \in Slots :
          /\ scan[p].pc = "idle"
          /\ scan[p].ended = "fanout"
          /\ DirectMessages(p) # <<>>
          /\ data = <<scan[p].new_last_checked_id>>

\* How often the reference occurs in the accumulators of pass record s.
Occurrences(s, ref) ==
    Cardinality({ k \in DOMAIN (s.image \o s.video \o s.weird) :
                    (s.image \o s.video \o s.weird)[k] = ref })

\* C19: passes following one another, the step in which a pass consumes its history
\* gathers links of no message an earlier pass gathered, and gathers once every link
\* of every message then in the source channel that no bot wrote, that has links
\* and whose identifier is above the cursor the pass started from.
C19_GatheredByOnePass ==
    [][ \A p \in Slots :
          (scan[p].pc = "history" /\ scan'[p].pc # "history") =>
              /\ IncludedIn(scan'[p]) \cap watch.included = {}
              /\ \A id \in source :
                    ( /\ id > scan[p].last_checked_id
                      /\ ~msgs[id].bot )
                    => \A k \in DOMAIN all_links(id, msgs[id].content) :
                          Occurrences(scan'[p], all_links(id, msgs[id].content)[k]) = 1
      ]_vars

\* C19 witness: a pass started from the cursor a first pass saved and gathered the
\* links of a later message while the message the first pass gathered was still in
\* the channel.
C19_Witness ==
    \E p \in Slots :
        /\ scan[p].last_checked_id > 0
        /\ IncludedIn(scan[p]) # {}
        /\ \E id \in source :
              /\ id \in watch.included \ IncludedIn(scan[p])
              /\ id <= scan[p].last_checked_id

\* C20: of two handlers triggered by replies to the same original, at most one has
\* deleted it and at most one has sent to the destination channel; once one has
\* deleted it, the other, when over, has sent nothing and ended at its fetch or at
\* its delete.
C20_OneRelocationPerOriginal ==
    \A a, b \in DOMAIN wf :
        ( /\ a # b
          /\ Triggers(msgs[a])
          /\ Triggers(msgs[b])
          /\ msgs[a].reference = msgs[b].reference )
        => /\ ~(wf[a].deleted /\ wf[b].deleted)
           /\ ~(wf[a].sent # <<>> /\ wf[b].sent # <<>>)
           /\ (wf[a].deleted /\ wf[b].pc = "done")
                => /\ wf[b].sent = <<>>
                   /\ wf[b].original = 0 \/ (wf[b].delete_tried /\ ~wf[b].deleted)

\* C20 witness: both handlers fetched the original before either deleted it; one
\* deleted and replayed it, the other's delete failed and it sent nothing.
C20_Witness ==
    \E a, b \in DOMAIN wf :
        /\ a # b
        /\ msgs[a].reference = msgs[b].reference
        /\ wf[a].deleted
        /\ wf[a].sent # <<>>
        /\ wf[b].original = wf[a].original
        /\ wf[b].delete_tried
        /\ ~wf[b].deleted
        /\ wf[b].pc = "done"

====
